---- MODULE Spec2Model ----
(***************************************************************************)
(* A model of src/src/App.jsx: the error boundary, the two GSAP timelines  *)
(* started by AnimatedGalaxy, the StatsMonitor animation-frame loop, the   *)
(* two point-field generators and the per-frame uniform writes.            *)
(*                                                                         *)
(* Four specifications share the variables:                                *)
(*   Spec       the lifecycle of the page: mount, ticker ticks, stats      *)
(*              frames, errors caught by the boundary, unmount;            *)
(*   SpecField  the two point fields: render, commit, tuning-panel changes *)
(*              and frame ticks;                                           *)
(*   SpecGen    one run of a generator loop, iteration by iteration;       *)
(*   SpecPoint  the spiral-disk point function over a grid of draws.       *)
(* Times are whole seconds.  Lengths are fixed-point integers.             *)
(***************************************************************************)
EXTENDS Integers, Naturals, Sequences, FiniteSets, TLC

VARIABLES
    \* ---- lifecycle (Spec)
    appPhase,           \* "init" | "mounted" | "unmounted"
    hasError,           \* CanvasErrorBoundary state.hasError
    error,              \* CanvasErrorBoundary state.error
    thrown,             \* history: the value last thrown by the 3D subtree
    rendered,           \* what CanvasErrorBoundary.render last returned
    sceneMounted,       \* AnimatedGalaxy is mounted (its effect has run)
    sceneTornDown,      \* AnimatedGalaxy was mounted and has been unmounted
    lightTl,            \* "none" | "running" | "killed"
    cameraTl,           \* "none" | "running" | "killed"
    tlTime,             \* seconds of ticker time since the timelines started
    lightTime,          \* playhead of the light timeline within its iteration
    lightIter,          \* iteration of the light timeline
    lightFrom,          \* start values the two light tweens recorded
    lightPos,           \* pointLight position, scaled by LightScale
    lightStops,         \* history: light positions seen at phase boundaries
    cameraTime,         \* playhead of the camera timeline within its iteration
    cameraIter,         \* iteration of the camera timeline
    cameraFrom,         \* start values the two camera tweens recorded
    cameraPos,          \* camera position, scaled by CameraScale
    cameraFacesOrigin,  \* the camera's orientation aims at (0,0,0)
    statsDom,           \* "none" | "attached" | "removed"
    rafPending,         \* an animation-frame request for animate is pending
    writes,             \* spy: what the last step wrote or called
    \* ---- point fields (SpecField)
    fieldPhase,         \* "init" | "rendered" | "committed"
    controls,           \* the values useControls returns
    coreGeometry,       \* the geometry GalaxyCore's useMemo holds
    nebulaGeometry,     \* the geometry NebulaClouds' useMemo holds
    corePoints,         \* geometry of the <points> object GalaxyCore renders
    nebulaPoints,       \* geometry of the <points> object NebulaClouds renders
    genRuns,            \* history: how often each generator has run
    materialRef,        \* materialRef.current: "unset" | "material"
    uniforms,           \* the uniforms of the core material
    nebulaMaterial,     \* the props of the nebula's pointsMaterial
    clock,              \* state.clock.getElapsedTime(), in frames' seconds
    groupRotation,      \* groupRef.current.rotation.y, in thousandths
    lastStep,           \* spy: "none" | "render" | "commit" | "control" | "frame"
    \* ---- generator loop (SpecGen)
    genField,           \* "core" | "nebula" | "none"
    genCount,           \* the loop bound of the run
    genI,               \* the loop variable i
    genPc,              \* "loop" | "done" | "idle"
    positions,          \* the positions array
    colors,             \* the colors array
    \* ---- point function (SpecPoint)
    ptPc,               \* "drawn" | "made" | "idle"
    ptDraw,             \* the four Math.random() draws of one iteration
    ptPoint             \* the point computed from them

lifeVars == <<appPhase, hasError, error, thrown, rendered, sceneMounted,
              sceneTornDown, lightTl, cameraTl, tlTime, lightTime, lightIter,
              lightFrom, lightPos, lightStops, cameraTime, cameraIter,
              cameraFrom, cameraPos, cameraFacesOrigin, statsDom, rafPending,
              writes>>
fieldVars == <<fieldPhase, controls, coreGeometry, nebulaGeometry, corePoints,
               nebulaPoints, genRuns, materialRef, uniforms, nebulaMaterial,
               clock, groupRotation, lastStep>>
genVars == <<genField, genCount, genI, genPc, positions, colors>>
pointVars == <<ptPc, ptDraw, ptPoint>>
vars == <<lifeVars, fieldVars, genVars, pointVars>>

-----------------------------------------------------------------------------
(* Bounds of the model.                                                    *)

\* the ticker's total time is followed up to MaxTime seconds
MaxTime == 70
\* one ticker tick advances the timelines by 1..MaxDt seconds
MaxDt == 3
\* the render clock is followed up to MaxClock seconds
MaxClock == 4
\* a generator run is followed for loop bounds 0..MaxCount
MaxCount == 2
\* Math.random() is drawn from the grid k/n, k in 0..n-1, with n steps for
\* the radius, the angle, the spin factor and the vertical offset
RadiusSteps == 60
AngleSteps == 12
SpinSteps == 3
OffsetSteps == 4

-----------------------------------------------------------------------------
(* JavaScript values.                                                      *)

Undefined == [kind |-> "undefined"]
Null == [kind |-> "null"]
Str(s) == [kind |-> "string", value |-> s]
NotThrown == [kind |-> "not-thrown"]
None == <<>>

\* the values a subtree can throw: Errors with and without a message text, an
\* object that has no message property, and null
Thrown ==
    { [kind |-> "Error", message |-> Str("test-error")],
      [kind |-> "Error", message |-> Str("")],
      [kind |-> "object"],
      Null }

\* e?.message
OptionalMessage(e) ==
    IF e = Null \/ e = Undefined THEN Undefined
    ELSE IF "message" \in DOMAIN e THEN e.message
    ELSE Undefined

\* a || b on strings and undefined
OrElse(a, b) == IF a = Undefined \/ a = Str("") THEN b ELSE a

-----------------------------------------------------------------------------
(* CanvasErrorBoundary.                                                    *)

DefaultErrorText == Str("An error occurred in the 3D scene.")

BoundaryInitialState == [hasError |-> FALSE, error |-> Null]

GetDerivedStateFromErrorDropped(e) == [hasError |-> FALSE, error |-> e]

GetDerivedStateFromError(e) == [hasError |-> TRUE, error |-> e]

BoundaryRender(state) ==
    IF state.hasError
    THEN [view |-> "fallback",
          heading |-> "Rendering Error",
          text |-> OrElse(OptionalMessage(state.error), DefaultErrorText)]
    ELSE [view |-> "children"]

-----------------------------------------------------------------------------
(* The tween timelines of AnimatedGalaxy.                                  *)

LightLegDuration == 8
CameraLegDuration == 20

LightScale == LightLegDuration * LightLegDuration * LightLegDuration
CameraScale == 2 * 1000

Scaled(v, s) == <<v[1] * s, v[2] * s, v[3] * s>>

LightInitial == Scaled(<<0, 2, 0>>, LightScale)
LightTo1 == Scaled(<<8, 5, 4>>, LightScale)
LightTo2 == Scaled(<<-8, 3, -4>>, LightScale)

CameraInitial == Scaled(<<0, 0, 30>>, CameraScale)
CameraTo1 == Scaled(<<30, 20, 30>>, CameraScale)
CameraTo2 == Scaled(<<-20, 10, 40>>, CameraScale)

LightYoyoOff == FALSE
LightYoyo == TRUE
CameraYoyo == FALSE

\* ease 'power2.inOut' (cubic) at t of d seconds, as a numerator over d^3
Power2InOut(t, d) ==
    IF 2 * t <= d THEN 4 * t * t * t
    ELSE d * d * d - 4 * (d - t) * (d - t) * (d - t)

\* 1000 * cos of a multiple of 9 degrees between 0 and 180
Cos1000(deg) ==
    LET quarter == <<1000, 988, 951, 891, 809, 707, 588, 454, 309, 156, 0>>
    IN  IF deg <= 90 THEN quarter[deg \div 9 + 1]
        ELSE -quarter[(180 - deg) \div 9 + 1]

\* ease 'sine.inOut' at t of d seconds, as a numerator over 2000
SineInOut(t, d) == 1000 - Cos1000((180 * t) \div d)

\* from + (to - from) * num / den, per coordinate
Lerp(from, to, num, den) ==
    <<from[1] + ((to[1] - from[1]) * num) \div den,
      from[2] + ((to[2] - from[2]) * num) \div den,
      from[3] + ((to[3] - from[3]) * num) \div den>>

\* the iteration a repeating timeline is in at total time t: the end of an
\* iteration belongs to that iteration, not to the next
TimelineIteration(t, cycle) ==
    IF t > 0 /\ t % cycle = 0 THEN t \div cycle - 1 ELSE t \div cycle

\* the playhead within the iteration; a yoyo timeline runs odd iterations
\* backwards
TimelinePlayhead(t, cycle, yoyo) ==
    LET iter == TimelineIteration(t, cycle)
        local == t - iter * cycle
    IN  IF yoyo /\ iter % 2 = 1 THEN cycle - local ELSE local

\* the start values of the two tweens of a timeline: a tween records the
\* target's current value when it first renders; the second tween first
\* renders once the playhead has passed the first, which by then has written
\* its end value
RecordFrom(from, pos, head, leg, to1) ==
    <<IF from[1] = None THEN pos ELSE from[1],
      IF from[2] = None /\ head >= leg THEN to1 ELSE from[2]>>

LightValue(from, head) ==
    IF head <= LightLegDuration
    THEN Lerp(from[1], LightTo1, Power2InOut(head, LightLegDuration), LightScale)
    ELSE Lerp(from[2], LightTo2,
              Power2InOut(head - LightLegDuration, LightLegDuration), LightScale)

CameraValue(from, head) ==
    IF head <= CameraLegDuration
    THEN Lerp(from[1], CameraTo1, SineInOut(head, CameraLegDuration), CameraScale)
    ELSE Lerp(from[2], CameraTo2,
              SineInOut(head - CameraLegDuration, CameraLegDuration), CameraScale)

\* the leg whose tween renders last when the playhead is at head
ActiveLeg(head, leg) == IF head <= leg THEN 1 ELSE 2

\* whether the tween of a camera leg carries onUpdate: () => camera.lookAt(0, 0, 0)
CameraLegOnUpdateFirstOnly(leg) == leg = 1

CameraLegOnUpdate(leg) == leg \in {1, 2}

\* what AnimatedGalaxy's effect does to a timeline it started when the
\* component unmounts: the effect returns no cleanup function
TimelineOnUnmount(tl) == tl

\* what StatsMonitor's cleanup does to the pending animation-frame request:
\* it removes stats.dom and cancels nothing
RafOnCleanup(pending) == pending

-----------------------------------------------------------------------------
(* The lifecycle of the page.                                              *)

IdleLife ==
    /\ appPhase = "init"
    /\ hasError = BoundaryInitialState.hasError
    /\ error = BoundaryInitialState.error
    /\ thrown = NotThrown
    /\ rendered = [view |-> "none"]
    /\ sceneMounted = FALSE
    /\ sceneTornDown = FALSE
    /\ lightTl = "none"
    /\ cameraTl = "none"
    /\ tlTime = 0
    /\ lightTime = 0
    /\ lightIter = 0
    /\ lightFrom = <<None, None>>
    /\ lightPos = LightInitial
    /\ lightStops = {}
    /\ cameraTime = 0
    /\ cameraIter = 0
    /\ cameraFrom = <<None, None>>
    /\ cameraPos = CameraInitial
    /\ cameraFacesOrigin = TRUE
    /\ statsDom = "none"
    /\ rafPending = FALSE
    /\ writes = {}

\* App renders for the first time: the boundary renders its children
MountApp ==
    /\ appPhase = "init"
    /\ appPhase' = "mounted"
    /\ rendered' = BoundaryRender([hasError |-> hasError, error |-> error])
    /\ writes' = {}
    /\ UNCHANGED <<hasError, error, thrown, sceneMounted, sceneTornDown, lightTl,
                   cameraTl, tlTime, lightTime, lightIter, lightFrom, lightPos,
                   lightStops, cameraTime, cameraIter, cameraFrom, cameraPos,
                   cameraFacesOrigin, statsDom, rafPending>>

\* AnimatedGalaxy's effect: both timelines are created and start running
MountScene ==
    /\ appPhase = "mounted"
    /\ rendered.view = "children"
    /\ ~sceneMounted /\ ~sceneTornDown
    /\ sceneMounted' = TRUE
    /\ lightTl' = "running"
    /\ cameraTl' = "running"
    /\ writes' = {}
    /\ UNCHANGED <<appPhase, hasError, error, thrown, rendered, sceneTornDown,
                   tlTime, lightTime, lightIter, lightFrom, lightPos, lightStops,
                   cameraTime, cameraIter, cameraFrom, cameraPos,
                   cameraFacesOrigin, statsDom, rafPending>>

\* StatsMonitor's effect: stats.dom is attached and animate is requested
MountStats ==
    /\ appPhase = "mounted"
    /\ statsDom = "none"
    /\ statsDom' = "attached"
    /\ rafPending' = TRUE
    /\ writes' = {}
    /\ UNCHANGED <<appPhase, hasError, error, thrown, rendered, sceneMounted,
                   sceneTornDown, lightTl, cameraTl, tlTime, lightTime, lightIter,
                   lightFrom, lightPos, lightStops, cameraTime, cameraIter,
                   cameraFrom, cameraPos, cameraFacesOrigin>>

\* the legs whose tweens render when the playhead moves from head0 to head1
LegsRendered(iter0, head0, iter1, head1, leg) ==
    IF iter0 # iter1 THEN {1, 2}
    ELSE LET a == ActiveLeg(head0, leg)
             b == ActiveLeg(head1, leg)
         IN  {l \in {1, 2} : (a <= l /\ l <= b) \/ (b <= l /\ l <= a)}

\* one tick of the GSAP ticker, dt seconds after the previous one: every
\* running timeline moves its playhead, its tweens write the target's
\* position, and the camera tweens then call their onUpdate
GsapTick(dt) ==
    /\ lightTl = "running" \/ cameraTl = "running"
    /\ tlTime + dt <= MaxTime
    /\ tlTime' = tlTime + dt
    /\ IF lightTl = "running"
       THEN LET cycle == 2 * LightLegDuration
                head == TimelinePlayhead(tlTime + dt, cycle, LightYoyo)
                from == RecordFrom(lightFrom, lightPos, head, LightLegDuration, LightTo1)
                pos == LightValue(from, head)
            IN  /\ lightIter' = TimelineIteration(tlTime + dt, cycle)
                /\ lightTime' = head
                /\ lightFrom' = from
                /\ lightPos' = pos
                /\ lightStops' = IF head \in {0, LightLegDuration, cycle}
                                 THEN lightStops \cup {pos} ELSE lightStops
       ELSE UNCHANGED <<lightIter, lightTime, lightFrom, lightPos, lightStops>>
    /\ IF cameraTl = "running"
       THEN LET cycle == 2 * CameraLegDuration
                iter == TimelineIteration(tlTime + dt, cycle)
                head == TimelinePlayhead(tlTime + dt, cycle, CameraYoyo)
                from == RecordFrom(cameraFrom, cameraPos, head, CameraLegDuration, CameraTo1)
                legs == LegsRendered(cameraIter, cameraTime, iter, head, CameraLegDuration)
            IN  /\ cameraIter' = iter
                /\ cameraTime' = head
                /\ cameraFrom' = from
                /\ cameraPos' = CameraValue(from, head)
                /\ cameraFacesOrigin' =
                       CameraLegOnUpdate(ActiveLeg(head, CameraLegDuration))
                /\ writes' = (IF lightTl = "running" THEN {"light.position"} ELSE {})
                       \cup {"camera.position"}
                       \cup (IF \E l \in legs : CameraLegOnUpdate(l)
                             THEN {"camera.lookAt"} ELSE {})
       ELSE /\ writes' = {"light.position"}
            /\ UNCHANGED <<cameraIter, cameraTime, cameraFrom, cameraPos,
                           cameraFacesOrigin>>
    /\ UNCHANGED <<appPhase, hasError, error, thrown, rendered, sceneMounted,
                   sceneTornDown, lightTl, cameraTl, statsDom, rafPending>>

\* the browser runs the pending animation-frame callback: animate calls
\* stats.begin(), stats.end() and requests the next frame
StatsAnimate ==
    /\ rafPending
    /\ rafPending' = TRUE
    /\ writes' = {"stats.animate"}
    /\ UNCHANGED <<appPhase, hasError, error, thrown, rendered, sceneMounted,
                   sceneTornDown, lightTl, cameraTl, tlTime, lightTime, lightIter,
                   lightFrom, lightPos, lightStops, cameraTime, cameraIter,
                   cameraFrom, cameraPos, cameraFacesOrigin, statsDom>>

\* a component of the 3D subtree throws e: React calls
\* getDerivedStateFromError(e) and renders the boundary again; when the
\* boundary no longer returns its children, the subtree is unmounted
ThrowInSubtree(e) ==
    /\ appPhase = "mounted"
    /\ rendered.view = "children"
    /\ LET state == GetDerivedStateFromError(e)
           out == BoundaryRender(state)
           gone == out.view # "children" /\ sceneMounted
       IN  /\ hasError' = state.hasError
           /\ error' = state.error
           /\ rendered' = out
           /\ sceneMounted' = IF gone THEN FALSE ELSE sceneMounted
           /\ sceneTornDown' = IF gone THEN TRUE ELSE sceneTornDown
           /\ lightTl' = IF gone THEN TimelineOnUnmount(lightTl) ELSE lightTl
           /\ cameraTl' = IF gone THEN TimelineOnUnmount(cameraTl) ELSE cameraTl
    /\ thrown' = e
    /\ writes' = {}
    /\ UNCHANGED <<appPhase, tlTime, lightTime, lightIter, lightFrom, lightPos,
                   lightStops, cameraTime, cameraIter, cameraFrom, cameraPos,
                   cameraFacesOrigin, statsDom, rafPending>>

\* App renders again: the boundary's render runs on its current state
Rerender ==
    /\ appPhase = "mounted"
    /\ rendered' = BoundaryRender([hasError |-> hasError, error |-> error])
    /\ writes' = {}
    /\ UNCHANGED <<appPhase, hasError, error, thrown, sceneMounted, sceneTornDown,
                   lightTl, cameraTl, tlTime, lightTime, lightIter, lightFrom,
                   lightPos, lightStops, cameraTime, cameraIter, cameraFrom,
                   cameraPos, cameraFacesOrigin, statsDom, rafPending>>

\* App is unmounted: StatsMonitor's cleanup runs, and AnimatedGalaxy is
\* unmounted if it is still mounted
UnmountApp ==
    /\ appPhase = "mounted"
    /\ appPhase' = "unmounted"
    /\ statsDom' = IF statsDom = "attached" THEN "removed" ELSE statsDom
    /\ rafPending' = IF statsDom = "attached" THEN RafOnCleanup(rafPending)
                     ELSE rafPending
    /\ sceneMounted' = FALSE
    /\ sceneTornDown' = (sceneTornDown \/ sceneMounted)
    /\ lightTl' = IF sceneMounted THEN TimelineOnUnmount(lightTl) ELSE lightTl
    /\ cameraTl' = IF sceneMounted THEN TimelineOnUnmount(cameraTl) ELSE cameraTl
    /\ writes' = {}
    /\ UNCHANGED <<hasError, error, thrown, rendered, tlTime, lightTime, lightIter,
                   lightFrom, lightPos, lightStops, cameraTime, cameraIter,
                   cameraFrom, cameraPos, cameraFacesOrigin>>

-----------------------------------------------------------------------------
(* Idle values of the variables a specification does not use.              *)

IdleField ==
    /\ fieldPhase = "idle"
    /\ controls = <<>>
    /\ coreGeometry = None
    /\ nebulaGeometry = None
    /\ corePoints = None
    /\ nebulaPoints = None
    /\ genRuns = <<>>
    /\ materialRef = "unset"
    /\ uniforms = <<>>
    /\ nebulaMaterial = <<>>
    /\ clock = 0
    /\ groupRotation = 0
    /\ lastStep = "none"

IdleGen ==
    /\ genField = "none"
    /\ genCount = 0
    /\ genI = 0
    /\ genPc = "idle"
    /\ positions = <<>>
    /\ colors = <<>>

IdlePoint ==
    /\ ptPc = "idle"
    /\ ptDraw = <<>>
    /\ ptPoint = <<>>

-----------------------------------------------------------------------------
(* Spec: the lifecycle.                                                    *)

Init == IdleLife /\ IdleField /\ IdleGen /\ IdlePoint

Next ==
    \/ MountApp /\ UNCHANGED <<fieldVars, genVars, pointVars>>
    \/ MountScene /\ UNCHANGED <<fieldVars, genVars, pointVars>>
    \/ MountStats /\ UNCHANGED <<fieldVars, genVars, pointVars>>
    \/ \E dt \in 1..MaxDt : GsapTick(dt) /\ UNCHANGED <<fieldVars, genVars, pointVars>>
    \/ StatsAnimate /\ UNCHANGED <<fieldVars, genVars, pointVars>>
    \/ \E e \in Thrown : ThrowInSubtree(e) /\ UNCHANGED <<fieldVars, genVars, pointVars>>
    \/ Rerender /\ UNCHANGED <<fieldVars, genVars, pointVars>>
    \/ UnmountApp /\ UNCHANGED <<fieldVars, genVars, pointVars>>

Spec == Init /\ [][Next]_vars

-----------------------------------------------------------------------------
(* The two point fields, the tuning panel and the frame tick.              *)

\* the loop bounds of the two generators
CoreCount == 30000
NebulaCount == 5000

\* the values useControls starts with; density and spiral in tenths,
\* rotateSpeed in thousandths
ControlDefaults ==
    [starCount |-> 30000, density |-> 15, spiral |-> 6, rotateSpeed |-> 20]

\* values the panel can be set to, within each control's min, max and step
ControlValues ==
    [starCount |-> {30000, 31000}, density |-> {15, 30}, spiral |-> {6, 20},
     rotateSpeed |-> {20, 100}]

\* the uniforms GalaxyMaterial is declared with; uDensity and uSpiral in tenths
UniformDefaults ==
    [uTime |-> 0, uColorInner |-> "#ffffff", uColorOuter |-> "#8899ff",
     uDensity |-> 10, uSpiral |-> 5]

\* the props of the nebula's pointsMaterial; size and opacity in tenths
NebulaMaterialProps ==
    [size |-> 8, vertexColors |-> TRUE, depthWrite |-> FALSE,
     transparent |-> TRUE, opacity |-> 3]

\* a BufferGeometry with position and color attributes of count points each,
\* built by run number run of the generator of field
Geometry(field, count, run) == [field |-> field, count |-> count, run |-> run]

\* no geometry yet
NoGeometry == [field |-> "none", count |-> 0, run |-> 0]

\* the geometry a Points object has when none is given to it
DefaultGeometry == [field |-> "default", count |-> 0, run |-> 0]

\* useMemo(factory, []) evaluated without the dependency list: the factory
\* runs on every render
UseMemoEveryRender(cached, made) == made

\* useMemo(factory, []): the factory runs on the first render only
UseMemo(cached, made) == IF cached = NoGeometry THEN made ELSE cached

\* <points geometry={geometry}> in GalaxyCore
CorePointsGeometry(geometry) == geometry

\* <points ref={pointsRef}> in NebulaClouds: no geometry prop is passed
NebulaPointsGeometry(geometry) == DefaultGeometry

\* GalaxyCore's useFrame callback with uDensity and uSpiral exchanged
GalaxyCoreFrameSwapped(ref, u, elapsed, density, spiral) ==
    IF ref # "unset"
    THEN [u EXCEPT !.uTime = elapsed, !.uDensity = spiral, !.uSpiral = density]
    ELSE u

\* GalaxyCore's useFrame callback
GalaxyCoreFrame(ref, u, elapsed, density, spiral) ==
    IF ref # "unset"
    THEN [u EXCEPT !.uTime = elapsed, !.uDensity = density, !.uSpiral = spiral]
    ELSE u

InitField ==
    /\ fieldPhase = "init"
    /\ controls = ControlDefaults
    /\ coreGeometry = NoGeometry
    /\ nebulaGeometry = NoGeometry
    /\ corePoints = NoGeometry
    /\ nebulaPoints = NoGeometry
    /\ genRuns = [core |-> 0, nebula |-> 0]
    /\ materialRef = "unset"
    /\ uniforms = UniformDefaults
    /\ nebulaMaterial = NebulaMaterialProps
    /\ clock = 0
    /\ groupRotation = 0
    /\ lastStep = "none"

\* GalaxyCore and NebulaClouds render: each useMemo returns its geometry,
\* running the generator when it has to
RenderFieldsStep ==
    LET core == UseMemo(coreGeometry,
                        Geometry("core", CoreCount, genRuns.core + 1))
        nebula == UseMemo(nebulaGeometry,
                          Geometry("nebula", NebulaCount, genRuns.nebula + 1))
    IN  /\ coreGeometry' = core
        /\ nebulaGeometry' = nebula
        /\ genRuns' = [core |-> IF core = coreGeometry THEN genRuns.core
                                ELSE genRuns.core + 1,
                       nebula |-> IF nebula = nebulaGeometry THEN genRuns.nebula
                                  ELSE genRuns.nebula + 1]

\* the commit of a render: the two <points> get their geometry and
\* materialRef is attached
CommitFieldsStep ==
    /\ corePoints' = CorePointsGeometry(coreGeometry')
    /\ nebulaPoints' = NebulaPointsGeometry(nebulaGeometry')
    /\ materialRef' = "material"

\* the first render of AnimatedGalaxy's children
RenderFields ==
    /\ fieldPhase = "init"
    /\ fieldPhase' = "rendered"
    /\ RenderFieldsStep
    /\ lastStep' = "render"
    /\ UNCHANGED <<controls, corePoints, nebulaPoints, materialRef, uniforms,
                   nebulaMaterial, clock, groupRotation>>

\* the first commit
CommitFields ==
    /\ fieldPhase = "rendered"
    /\ fieldPhase' = "committed"
    /\ UNCHANGED <<controls, coreGeometry, nebulaGeometry, genRuns, uniforms,
                   nebulaMaterial, clock, groupRotation>>
    /\ CommitFieldsStep
    /\ lastStep' = "commit"

\* the panel sets control name to value: AnimatedGalaxy renders again with
\* the new values, and so do GalaxyCore and NebulaClouds
SetControl(name, value) ==
    /\ fieldPhase = "committed"
    /\ controls[name] # value
    /\ controls' = [controls EXCEPT ![name] = value]
    /\ RenderFieldsStep
    /\ CommitFieldsStep
    /\ lastStep' = "control"
    /\ UNCHANGED <<fieldPhase, uniforms, nebulaMaterial, clock, groupRotation>>

\* one frame of the render loop, dt seconds after the previous one:
\* AnimatedGalaxy's callback turns the group once it is attached,
\* GalaxyCore's callback writes the uniforms
FrameTick(dt) ==
    /\ fieldPhase \in {"rendered", "committed"}
    /\ clock + dt <= MaxClock
    /\ clock' = clock + dt
    /\ groupRotation' = IF fieldPhase = "committed"
                        THEN groupRotation + controls.rotateSpeed
                        ELSE groupRotation
    /\ uniforms' = GalaxyCoreFrame(materialRef, uniforms, clock + dt,
                                   controls.density, controls.spiral)
    /\ lastStep' = "frame"
    /\ UNCHANGED <<fieldPhase, controls, coreGeometry, nebulaGeometry, corePoints,
                   nebulaPoints, genRuns, materialRef, nebulaMaterial>>

NextField ==
    \/ RenderFields /\ UNCHANGED <<lifeVars, genVars, pointVars>>
    \/ CommitFields /\ UNCHANGED <<lifeVars, genVars, pointVars>>
    \/ \E name \in DOMAIN ControlValues : \E value \in ControlValues[name] :
          SetControl(name, value) /\ UNCHANGED <<lifeVars, genVars, pointVars>>
    \/ \E dt \in {1, 2} : FrameTick(dt) /\ UNCHANGED <<lifeVars, genVars, pointVars>>

InitFieldSpec == IdleLife /\ InitField /\ IdleGen /\ IdlePoint

SpecField == InitFieldSpec /\ [][NextField]_vars

-----------------------------------------------------------------------------
(* The point generators.  Lengths are in hundredths, Math.random() draws   *)
(* are grid indices k standing for k/n, angles are whole degrees.          *)

\* a * b / c, rounded towards zero
MulDiv(a, b, c) ==
    IF a * b >= 0 THEN (a * b) \div c ELSE -((-(a * b)) \div c)

\* Math.random() * scale for the draw k of n
RandomTimes(k, n, scale) == (k * scale) \div n

\* 1000 * cos(deg), deg taken down to a multiple of 15 degrees
Cos1000Deg(deg) ==
    LET quarter == <<1000, 965, 866, 707, 500, 258, 0>>
        d == ((deg % 360) \div 15) * 15
    IN  IF d <= 90 THEN quarter[d \div 15 + 1]
        ELSE IF d <= 180 THEN -quarter[(180 - d) \div 15 + 1]
        ELSE IF d <= 270 THEN -quarter[(d - 180) \div 15 + 1]
        ELSE quarter[(360 - d) \div 15 + 1]

\* 1000 * sin(deg)
Sin1000Deg(deg) == Cos1000Deg(deg + 270)

\* the largest s with s * s <= v, for v up to 1000 * 1000
Sqrt(v) == CHOOSE s \in 0..1000 : s * s <= v /\ (s + 1) * (s + 1) > v

\* radians in thousandths to whole degrees
Degrees(mrad) == (mrad * 180) \div 3142

\* #ffffff, #8899ff and #ff88cc as THREE.Color components out of 255
CenterColor == <<255, 255, 255>>
OuterColor == <<136, 153, 255>>
NebulaColor == <<255, 136, 204>>

\* one iteration of GalaxyCore's loop with z computed with Math.cos
CorePointCosTwice(draw) ==
    LET radius == RandomTimes(draw[1], RadiusSteps, 6000)
        angle == RandomTimes(draw[2], AngleSteps, 360)
        spin == MulDiv(radius, 300 + RandomTimes(draw[3], SpinSteps, 200), 100)
        turn == angle + Degrees(spin)
    IN  [x |-> MulDiv(Cos1000Deg(turn), radius, 1000),
         y |-> MulDiv((RandomTimes(draw[4], OffsetSteps, 100) - 50) * 8,
                      6000 - radius, 6000),
         z |-> MulDiv(Cos1000Deg(turn), radius, 1000),
         radius |-> radius,
         color |-> Lerp(CenterColor, OuterColor, radius, 6000)]

\* one iteration of GalaxyCore's loop: the point and its colour for the four
\* draws of radius, angle, spin factor and vertical offset
CorePoint(draw) ==
    LET radius == RandomTimes(draw[1], RadiusSteps, 6000)
        angle == RandomTimes(draw[2], AngleSteps, 360)
        spin == MulDiv(radius, 300 + RandomTimes(draw[3], SpinSteps, 200), 100)
        turn == angle + Degrees(spin)
    IN  [x |-> MulDiv(Cos1000Deg(turn), radius, 1000),
         y |-> MulDiv((RandomTimes(draw[4], OffsetSteps, 100) - 50) * 8,
                      6000 - radius, 6000),
         z |-> MulDiv(Sin1000Deg(turn), radius, 1000),
         radius |-> radius,
         color |-> Lerp(CenterColor, OuterColor, radius, 6000)]

\* one iteration of NebulaClouds' loop: the point for the three draws of
\* radius, theta and the argument of acos
NebulaPoint(draw) ==
    LET radius == 4000 + RandomTimes(draw[1], RadiusSteps, 2000)
        theta == RandomTimes(draw[2], AngleSteps, 360)
        cosPhi == 2 * RandomTimes(draw[3], OffsetSteps, 1000) - 1000
        sinPhi == Sqrt(1000 * 1000 - cosPhi * cosPhi)
    IN  [x |-> MulDiv(MulDiv(radius, sinPhi, 1000), Cos1000Deg(theta), 1000),
         y |-> MulDiv(MulDiv(radius, sinPhi, 1000), Sin1000Deg(theta), 1000),
         z |-> MulDiv(radius, cosPhi, 1000),
         radius |-> radius,
         color |-> NebulaColor]

\* colors.push(r, g, b) with the last component left out
PushColorShort(array, c) == array \o <<c[1], c[2]>>

\* colors.push(r, g, b)
PushColor(array, c) == array \o <<c[1], c[2], c[3]>>

\* positions.push(x, y, z)
PushPosition(array, pt) == array \o <<pt.x, pt.y, pt.z>>

\* the draws of all grid points, and of the ends of each grid only
CoreDraws ==
    (0..(RadiusSteps - 1)) \X (0..(AngleSteps - 1)) \X (0..(SpinSteps - 1))
        \X (0..(OffsetSteps - 1))
CoreEndDraws ==
    {0, RadiusSteps - 1} \X {0, AngleSteps - 1} \X {0, SpinSteps - 1}
        \X {0, OffsetSteps - 1}
NebulaEndDraws ==
    {0, RadiusSteps - 1} \X {0, AngleSteps - 1} \X {0, OffsetSteps - 1}

\* the start of a generator run; the loop bound is the literal 30000
\* (GalaxyCore) or 5000 (NebulaClouds) in the source and 0..MaxCount here
InitGen ==
    /\ genField \in {"core", "nebula"}
    /\ genCount \in 0..MaxCount
    /\ genI = 0
    /\ genPc = "loop"
    /\ positions = <<>>
    /\ colors = <<>>

\* the body of GalaxyCore's loop, once
CoreIteration(draw) ==
    /\ genField = "core" /\ genPc = "loop"
    /\ genI < genCount
    /\ LET pt == CorePoint(draw)
       IN  /\ positions' = PushPosition(positions, pt)
           /\ colors' = PushColor(colors, pt.color)
    /\ genI' = genI + 1
    /\ UNCHANGED <<genField, genCount, genPc>>

\* the body of NebulaClouds' loop, once
NebulaIteration(draw) ==
    /\ genField = "nebula" /\ genPc = "loop"
    /\ genI < genCount
    /\ LET pt == NebulaPoint(draw)
       IN  /\ positions' = PushPosition(positions, pt)
           /\ colors' = PushColor(colors, pt.color)
    /\ genI' = genI + 1
    /\ UNCHANGED <<genField, genCount, genPc>>

\* the loop ends and the two arrays become the geometry's attributes
LoopExit ==
    /\ genPc = "loop"
    /\ ~(genI < genCount)
    /\ genPc' = "done"
    /\ UNCHANGED <<genField, genCount, genI, positions, colors>>

InitGenSpec == IdleLife /\ IdleField /\ InitGen /\ IdlePoint

NextGen ==
    \/ \E draw \in CoreEndDraws :
          CoreIteration(draw) /\ UNCHANGED <<lifeVars, fieldVars, pointVars>>
    \/ \E draw \in NebulaEndDraws :
          NebulaIteration(draw) /\ UNCHANGED <<lifeVars, fieldVars, pointVars>>
    \/ LoopExit /\ UNCHANGED <<lifeVars, fieldVars, pointVars>>

SpecGen == InitGenSpec /\ [][NextGen]_vars

InitPoint ==
    /\ ptPc = "drawn"
    /\ ptDraw \in CoreDraws
    /\ ptPoint = <<>>

\* the spiral-disk point of the draws
MakePoint ==
    /\ ptPc = "drawn"
    /\ ptPoint' = CorePoint(ptDraw)
    /\ ptPc' = "made"
    /\ UNCHANGED ptDraw

InitPointSpec == IdleLife /\ IdleField /\ IdleGen /\ InitPoint

NextPoint == MakePoint /\ UNCHANGED <<lifeVars, fieldVars, genVars>>

SpecPoint == InitPointSpec /\ [][NextPoint]_vars

-----------------------------------------------------------------------------
(* Properties of the lifecycle (checked under Spec).                       *)

TimelineWrites == {"light.position", "camera.position", "camera.lookAt"}

\* C1: after AnimatedGalaxy is torn down, neither timeline writes the light
\* position or the camera position, nor calls camera.lookAt, at any tick.
C1_NoTimelineWriteAfterTeardown ==
    sceneTornDown => writes \cap TimelineWrites = {}

\* C2: after StatsMonitor's cleanup has run, animate is never invoked again
\* and no animation-frame request is pending.
C2_StatsLoopStoppedByCleanup ==
    statsDom = "removed" => ~rafPending /\ "stats.animate" \notin writes

\* the text the fallback shows for a thrown value
FallbackTextFor(e) ==
    IF "message" \in DOMAIN e /\ e.message # Str("") THEN e.message
    ELSE Str("An error occurred in the 3D scene.")

C3_StateFollowsThrow ==
    /\ thrown # NotThrown =>
         /\ hasError
         /\ error = thrown
         /\ rendered = [view |-> "fallback", heading |-> "Rendering Error",
                        text |-> FallbackTextFor(thrown)]
    /\ thrown = NotThrown /\ appPhase # "init" =>
         /\ ~hasError
         /\ rendered = [view |-> "children"]

\* C3: once the 3D subtree has thrown, the boundary has hasError = TRUE and
\* holds the thrown value, and every render returns the fallback with the
\* error's message (the default text when it has none); the error state is
\* never left; while nothing was thrown the boundary renders its children.
C3_BoundaryFallbackIsAbsorbing ==
    /\ []C3_StateFollowsThrow
    /\ [][hasError => hasError' /\ error' = error
                        /\ rendered'.view = "fallback"]_vars

C3_Witness ==
    /\ hasError
    /\ thrown = [kind |-> "Error", message |-> Str("test-error")]
    /\ rendered.text = Str("test-error")
    /\ sceneTornDown
    /\ tlTime > 0

\* C7 as stated: the light stops at exactly two points: over a whole run the
\* positions it has at phase boundaries are at most two.
C7_LightStopsAtTwoPoints == Cardinality(lightStops) <= 2

\* C7 as amended: at the phase boundaries (every 8 seconds) the light is at
\* one of three points: the end of leg 1 after 8 s, the end of leg 2 after
\* 16 s, the end of leg 1 again after 24 s, and its initial position (0,2,0)
\* after 32 s, when the reversed pass ends; a pass is two 8-second eases; the
\* timeline is running whenever the scene is mounted.
C7_LightStopsAtThreePoints ==
    /\ sceneMounted => lightTl = "running"
    /\ lightStops \subseteq {LightInitial, LightTo1, LightTo2}
    /\ tlTime > 0 /\ tlTime % 8 = 0 =>
         lightPos = CASE tlTime % 32 = 8 -> LightTo1
                      [] tlTime % 32 = 16 -> LightTo2
                      [] tlTime % 32 = 24 -> LightTo1
                      [] OTHER -> LightInitial

C7_Witness ==
    /\ sceneMounted
    /\ tlTime = 64
    /\ lightPos = LightInitial
    /\ lightStops = {LightInitial, LightTo1, LightTo2}

C8_CameraUpdateAimsAtOrigin ==
    /\ "camera.position" \in writes =>
         "camera.lookAt" \in writes /\ cameraFacesOrigin
    /\ tlTime % 40 = 20 => cameraPos = CameraTo1
    /\ tlTime > 0 /\ tlTime % 40 = 0 => cameraPos = CameraTo2

\* C8: the camera timeline plays leg 1 then leg 2, 20 seconds each, and
\* starts again with leg 1 (never backwards); every update of the camera
\* position by either leg calls camera.lookAt(0,0,0) in the same update, so
\* the camera faces the origin after it.
C8_CameraLegsInOrderAimedAtOrigin ==
    /\ []C8_CameraUpdateAimsAtOrigin
    /\ [][tlTime' # tlTime =>
            IF cameraIter' = cameraIter
            THEN cameraTime' > cameraTime
            ELSE cameraIter' = cameraIter + 1 /\ cameraTime' <= 20]_vars

C8_Witness ==
    /\ cameraIter = 1
    /\ cameraTime > 20
    /\ writes = TimelineWrites
    /\ cameraFacesOrigin

-----------------------------------------------------------------------------
(* Properties of the point fields (checked under SpecField).               *)

\* C4 as stated: the core field's count is the configured count: once the
\* panel changes it, the core buffers are generated again with that count.
C4_CoreCountFollowsControl ==
    fieldPhase = "committed" => coreGeometry.count = controls.starCount

\* C4 as amended: each generator runs exactly once, at the first render, with
\* its fixed count (30000 for the core, not configurable: starCount does not
\* reach GalaxyCore); no later render, control change (starCount, density,
\* spiral, rotateSpeed) or frame tick runs it again or replaces the buffers.
C4_GeneratedOnceWithFixedCount ==
    fieldPhase # "init" =>
        /\ genRuns = [core |-> 1, nebula |-> 1]
        /\ coreGeometry = Geometry("core", 30000, 1)
        /\ nebulaGeometry = Geometry("nebula", 5000, 1)

C4_Witness ==
    /\ fieldPhase = "committed"
    /\ controls.starCount = 31000
    /\ controls.density = 30
    /\ clock > 1
    /\ genRuns.core = 1

C9_FrameWritesLatestValues ==
    lastStep = "frame" /\ materialRef # "unset" =>
        /\ uniforms.uDensity = controls.density
        /\ uniforms.uSpiral = controls.spiral
        /\ uniforms.uTime = clock

\* C9: a frame tick with the core material attached writes the current
\* density, spiral and elapsed time into uDensity, uSpiral and uTime and
\* nothing else (the colour uniforms, the nebula's material and both
\* geometries stay as they are); uTime never decreases; with materialRef
\* unset the tick writes no uniform.
C9_FrameWritesOnlyCoreUniforms ==
    /\ []C9_FrameWritesLatestValues
    /\ [][lastStep' = "frame" =>
            /\ uniforms'.uColorInner = uniforms.uColorInner
            /\ uniforms'.uColorOuter = uniforms.uColorOuter
            /\ uniforms'.uTime >= uniforms.uTime
            /\ nebulaMaterial' = nebulaMaterial
            /\ nebulaGeometry' = nebulaGeometry /\ nebulaPoints' = nebulaPoints
            /\ coreGeometry' = coreGeometry /\ corePoints' = corePoints
            /\ (materialRef = "unset" => uniforms' = uniforms)]_vars

C9_Witness ==
    /\ lastStep = "frame"
    /\ materialRef = "material"
    /\ controls.density = 30 /\ uniforms.uDensity = 30
    /\ controls.spiral = 20 /\ uniforms.uSpiral = 20
    /\ uniforms.uTime = clock /\ clock > 2

\* C10: after mount each field's <points> object draws the geometry its own
\* generator built: the core the 30000 generated points, the nebula the 5000.
C10_PointsDrawGeneratedGeometry ==
    fieldPhase = "committed" =>
        /\ corePoints = coreGeometry
        /\ nebulaPoints = nebulaGeometry
        /\ nebulaPoints.count = 5000

-----------------------------------------------------------------------------
(* Properties of the generators (checked under SpecGen and SpecPoint).     *)

\* C5: in both generators, at every iteration of the loop and at its end the
\* positions and colors arrays have the same length, 3 times the number of
\* points made so far; at the end that is 3 times the count, and a count of
\* 0 leaves both arrays empty.
C5_BuffersGrowInStep ==
    genPc \in {"loop", "done"} =>
        /\ Len(positions) = Len(colors)
        /\ Len(positions) = 3 * genI
        /\ genPc = "done" => genI = genCount /\ Len(colors) = 3 * genCount
        /\ genPc = "done" /\ genCount = 0 => positions = <<>> /\ colors = <<>>

C5_Witness ==
    /\ genPc = "done"
    /\ genField = "nebula"
    /\ genCount = 2
    /\ Len(positions) = 6

\* C6: every point of the spiral-disk policy lies within 60 of the origin:
\* x^2 + z^2 is at most radius^2, |y| at most 4 * (1 - radius/60), and
\* x^2 + y^2 + z^2 at most 60^2, for every draw of the grid.
C6_CorePointWithinRadius ==
    ptPc = "made" =>
        /\ ptPoint.radius >= 0 /\ ptPoint.radius <= 6000
        /\ ptPoint.x * ptPoint.x + ptPoint.z * ptPoint.z
              <= ptPoint.radius * ptPoint.radius
        /\ 6000 * ptPoint.y <= 400 * (6000 - ptPoint.radius)
        /\ 6000 * ptPoint.y >= -400 * (6000 - ptPoint.radius)
        /\ ptPoint.x * ptPoint.x + ptPoint.y * ptPoint.y + ptPoint.z * ptPoint.z
              <= 6000 * 6000

C6_Witness ==
    /\ ptPc = "made"
    /\ ptPoint.radius = 5900
    /\ ptPoint.x # 0 /\ ptPoint.z # 0 /\ ptPoint.y < 0

====
